---------------------------- MODULE Spec2Model ----------------------------
(***************************************************************************)
(* Model of internal/checks/promql_series.go: SeriesCheck.Check and its    *)
(* helpers.  Check walks the selectors of a rule's expression and, for     *)
(* each, asks a Prometheus backend whether the series exist now and in     *)
(* the last week, turning what it learns into a list of problems.          *)
(*                                                                         *)
(* Everything Check reads from outside (the rule's comments, the sibling   *)
(* entries, the backend's answers, the wall clock) is an input.  The rule  *)
(* and the entries do not change during a call, so the model fixes each of *)
(* their items the first time Check reads it and keeps it from then on;    *)
(* every backend call and every clock read picks its answer when made.     *)
(*                                                                         *)
(* Times and durations are whole seconds.                                  *)
(***************************************************************************)
EXTENDS Integers, Sequences, FiniteSets, TLC

VARIABLES
    pc,               \* where the call of Check is
    expr,             \* rule.Expr(): [SyntaxError, Query]
    comments,         \* the rule's comments read so far: key -> value
    entries,          \* the sibling entries, once read: [known, list]
    now,              \* the wall clock at its last read
    ticks,            \* how often the clock was seen to advance
    selectors,        \* getSelectors(expr.Query)
    idx,              \* position of the selector loop in selectors
    selector,         \* the loop variable of the selector loop
    done,             \* done: the set of selector strings already seen
    problems,         \* the problems returned
    queries,          \* every call made to the backend, in order
    labelNames,       \* labelNames of the current selector
    li,               \* position of the per-label loop (step 3)
    mi,               \* position of the per-matcher loop (steps 5-7)
    trs,              \* trs: time ranges of the bare metric
    trsLabelCount,    \* trsLabelCount of the last step 3 query
    trsLabel,         \* trsLabel of the last per-matcher query
    highChurnLabels,  \* highChurnLabels of the current selector
    minAge,           \* minAge last returned by getMinAge (0: none yet)
    count,            \* count: what the instant query of step 1 returned
    selFirst,         \* len(problems) when the current selector began
    trIn,             \* a range query answer given to serieTimeRanges
    trOut             \* what serieTimeRanges made of trIn

vars == <<pc, expr, comments, entries, now, ticks, selectors, idx, selector,
          done, problems, queries, labelNames, li, mi, trs, trsLabelCount,
          trsLabel, highChurnLabels, minAge, count, selFirst, trIn, trOut>>

(***************************************************************************)
(* Bounds of the model.                                                    *)
(***************************************************************************)
\* the longest series of samples given to serieTimeRanges on its own
MaxSamples == 4
\* how often the wall clock is seen to advance during one call of Check
MaxTicks == 1

(***************************************************************************)
(* Durations (package time) and the constants of Check.                    *)
(***************************************************************************)
Second == 1
Minute == 60 * Second
Hour == 60 * Minute
Day == 24 * Hour

SeriesCheckName == "promql/series"
rangeLookback == Hour * 24 * 7
rangeStep == Minute * 5
defaultMinAge == Hour * 2

Information == "Information"
Warning == "Warning"
Bug == "Bug"

(***************************************************************************)
(* Label matchers and vector selectors (prometheus labels / promql).       *)
(***************************************************************************)
MatchEqual == "="
MatchNotEqual == "!="
MatchRegexp == "=~"
MatchNotRegexp == "!~"
MetricName == "__name__"

Matcher(t, n, v) == [Type |-> t, Name |-> n, Value |-> v]

\* a selector as the promql parser builds it: a metric name written in front
\* of the braces is also the last matcher, __name__="<name>"
VS(name, lms, offset) ==
    [Name |-> name,
     LabelMatchers |-> IF name = "" THEN lms
                       ELSE Append(lms, Matcher(MatchEqual, MetricName, name)),
     Offset |-> offset]

\* VectorSelector.String(): the metric name, then the matchers other than the
\* one that only repeats the name, then the offset if there is one
String(s) ==
    [name |-> s.Name,
     lms |-> SelectSeq(s.LabelMatchers,
                LAMBDA lm : ~(lm.Name = MetricName /\ lm.Type = MatchEqual
                              /\ lm.Value = s.Name)),
     offset |-> s.Offset]

RECURSIVE stripLoop(_, _, _)
stripLoop(s, lms, i) ==
    IF i > Len(lms) THEN s
    ELSE IF lms[i].Name = MetricName
         THEN stripLoop([s EXCEPT !.LabelMatchers = Append(@, lms[i]),
                                  !.Name = lms[i].Value], lms, i + 1)
         ELSE stripLoop(s, lms, i + 1)

stripLabels(sel) ==
    stripLoop([Name |-> sel.Name, LabelMatchers |-> <<>>, Offset |-> 0],
              sel.LabelMatchers, 1)

(***************************************************************************)
(* The expression tree and getSelectors.                                   *)
(***************************************************************************)
NoVS == [Name |-> "", LabelMatchers |-> <<>>, Offset |-> 0]
Leaf(s) == [isVS |-> TRUE, vs |-> s, Children |-> <<>>]
Inner(children) == [isVS |-> FALSE, vs |-> NoVS, Children |-> children]

RECURSIVE getSelectors(_)
RECURSIVE childSelectors(_, _)
childSelectors(children, i) ==
    IF i > Len(children) THEN <<>>
    ELSE getSelectors(children[i]) \o childSelectors(children, i + 1)

getSelectors(n) ==
    (IF n.isVS
     THEN <<[Name |-> n.vs.Name, LabelMatchers |-> n.vs.LabelMatchers,
             Offset |-> 0]>>
     ELSE <<>>) \o childSelectors(n.Children, 1)

(***************************************************************************)
(* timeRange, timeRanges and their methods.  A label set is a set of       *)
(* <<name, value>> pairs; the zero time.Time is 0.                         *)
(***************************************************************************)
timeRange(lbls, start, end) == [labels |-> lbls, start |-> start, end |-> end]

NoRanges == [err |-> FALSE, from |-> 0, until |-> 0, step |-> 0, ranges |-> <<>>]
FailedRanges == [NoRanges EXCEPT !.err = TRUE]

\* extendRange, were a sample at the very end of a range not taken into it
RECURSIVE extendRangeInside(_, _, _, _, _)
extendRangeInside(ranges, lbls, ts, step, i) ==
    IF i > Len(ranges)
    THEN Append(ranges, timeRange(lbls, ts, ts + step))
    ELSE IF ranges[i].labels = lbls
            /\ ~(ts < ranges[i].start)
            /\ ts < ranges[i].end
         THEN [ranges EXCEPT ![i].end = ts + step]
         ELSE extendRangeInside(ranges, lbls, ts, step, i + 1)

\* the inner loop of serieTimeRanges over tr.ranges, from index i on: the
\* first range of the same labels that holds ts is stretched to ts+step
RECURSIVE extendRange(_, _, _, _, _)
extendRange(ranges, lbls, ts, step, i) ==
    IF i > Len(ranges)
    THEN Append(ranges, timeRange(lbls, ts, ts + step))
    ELSE IF ranges[i].labels = lbls
            /\ ~(ts < ranges[i].start)
            /\ ~(ts > ranges[i].end)
         THEN [ranges EXCEPT ![i].end = ts + step]
         ELSE extendRange(ranges, lbls, ts, step, i + 1)

\* the loop over s.Values[lo..hi], first to last.  The stretch is walked in
\* two halves, the first half finished before the second begins, so that a
\* week of samples does not nest the evaluation a sample deep.
RECURSIVE valuesLoop(_, _, _, _, _, _)
valuesLoop(ranges, lbls, values, step, lo, hi) ==
    IF lo > hi THEN ranges
    ELSE IF lo = hi THEN extendRange(ranges, lbls, values[lo], step, 1)
    ELSE LET mid == (lo + hi) \div 2
             firstHalf == valuesLoop(ranges, lbls, values, step, lo, mid)
         IN  IF Len(firstHalf) >= 0
             THEN valuesLoop(firstHalf, lbls, values, step, mid + 1, hi)
             ELSE firstHalf

RECURSIVE samplesLoop(_, _, _, _)
samplesLoop(ranges, samples, step, i) ==
    IF i > Len(samples) THEN ranges
    ELSE samplesLoop(valuesLoop(ranges, samples[i].Metric, samples[i].Values,
                                step, 1, Len(samples[i].Values)),
                     samples, step, i + 1)

\* qr is what prom.RangeQuery answered: [err, Start, End, Samples]
serieTimeRanges(qr, step) ==
    IF qr.err THEN FailedRanges
    ELSE [err |-> FALSE, from |-> qr.Start, until |-> qr.End, step |-> step,
          ranges |-> samplesLoop(<<>>, qr.Samples, step, 1)]

HasLabel(lbls, name) == \E kv \in lbls : kv[1] = name

withLabelName(tr, name) ==
    SelectSeq(tr.ranges, LAMBDA r : HasLabel(r.labels, name))

labelValues(tr, name) ==
    {kv[2] : kv \in {p \in UNION {tr.ranges[i].labels : i \in DOMAIN tr.ranges} :
                        p[1] = name}}

duration(tr) == tr.until - tr.from

RECURSIVE sumLife(_, _)
sumLife(ranges, i) ==
    IF i > Len(ranges) THEN 0
    ELSE (ranges[i].end - ranges[i].start) + sumLife(ranges, i + 1)

avgLife(tr) ==
    IF Len(tr.ranges) = 0 THEN 0
    ELSE Second * ((sumLife(tr.ranges, 1) \div Second) \div Len(tr.ranges))

RECURSIVE oldestFrom(_, _, _)
oldestFrom(ranges, ts, i) ==
    IF i > Len(ranges) THEN ts
    ELSE oldestFrom(ranges,
                    IF ts = 0 \/ ranges[i].start < ts THEN ranges[i].start ELSE ts,
                    i + 1)

oldest(tr) == oldestFrom(tr.ranges, 0, 1)

RECURSIVE newestFrom(_, _, _)
newestFrom(ranges, ts, i) ==
    IF i > Len(ranges) THEN ts
    ELSE newestFrom(ranges,
                    IF ts = 0 \/ ranges[i].end > ts THEN ranges[i].end ELSE ts,
                    i + 1)

newest(tr) == newestFrom(tr.ranges, 0, 1)

\* time.Duration.Round: to the nearest multiple of m, halves away from zero
Round(d, m) ==
    LET a == IF d < 0 THEN 0 - d ELSE d
        r == a % m
        q == IF r + r < m THEN a - r ELSE a + m - r
    IN  IF d < 0 THEN 0 - q ELSE q

\* output.HumanizeDuration: the duration spelled in weeks, days, hours,
\* minutes and seconds
HumanizeDuration(d) ==
    [w |-> d \div (7 * Day), d |-> (d % (7 * Day)) \div Day,
     h |-> (d % Day) \div Hour, m |-> (d % Hour) \div Minute,
     s |-> (d % Minute) \div Second]

\* sinceDesc with the clock read by time.Since passed as clock
sinceDesc(clock, t) ==
    LET dur == clock - t
    IN  IF dur > Hour * 24
        THEN HumanizeDuration(Round(dur, Hour))
        ELSE HumanizeDuration(Round(dur, Minute))

(***************************************************************************)
(* Problems.  Text keeps what the message is built from: which message it  *)
(* is, the selector and the label, alert name or matcher it names, the     *)
(* sinceDesc or life span printed, and whether the churn note was added.   *)
(***************************************************************************)
NoString == String(NoVS)
NoMatcher == Matcher("", "", "")
NoSince == HumanizeDuration(0)

Text(msg, sel, name, lm, since, life, churn) ==
    [msg |-> msg, sel |-> sel, name |-> name, lm |-> lm, since |-> since,
     life |-> life, churn |-> churn]

Problem(fragment, text, severity) ==
    [Fragment |-> fragment, Text |-> text, Severity |-> severity]

\* textAndSeverityFromError, called with Bug as the default severity
textAndSeverityFromError(err, default) ==
    [text |-> Text("query failed", NoString, err, NoMatcher, NoSince, NoSince,
                   FALSE),
     severity |-> default]

(***************************************************************************)
(* The rule's comments.  A comment is known by its key: what it sets, the  *)
(* selector text in its parentheses (or none) and, for ignore/label-value, *)
(* the label.  Its value is what follows the key.                          *)
(***************************************************************************)
Key(kind, global, sel, label) ==
    [kind |-> kind, global |-> global, sel |-> sel, label |-> label]

NoKey == Key("", FALSE, NoString, "")

\* Problem.Fragment: the text of a selector, or the text of a comment
Fragment(sel) == [sel |-> sel, key |-> NoKey, value |-> ""]
CommentFragment(k, v) == [sel |-> NoString, key |-> k, value |-> v]

queryProblem(err, sel) ==
    LET ts == textAndSeverityFromError(err, Bug)
    IN  Problem(Fragment(sel), ts.text, ts.severity)

DisableKey(sel) == Key("disable", FALSE, sel, "")
MinAgeKey(global, sel) == Key("min-age", global, sel, "")
IgnoreKey(global, sel, label) == Key("ignore/label-value", global, sel, label)

Absent == [present |-> FALSE, Value |-> ""]
Present(v) == [present |-> TRUE, Value |-> v]

\* model.ParseDuration on the values the rules of the model carry
ParseDuration(v) ==
    CASE v = "1h" -> [err |-> FALSE, dur |-> Hour]
      [] v = "3h" -> [err |-> FALSE, dur |-> 3 * Hour]
      [] v = "1d" -> [err |-> FALSE, dur |-> Day]
      [] OTHER -> [err |-> TRUE, dur |-> 0]

\* what a rule may carry under a key
CommentChoices(k) ==
    IF k.kind = "min-age"
    THEN {Absent, Present("bogus"),
          Present(IF k.global THEN "1h"
                  ELSE IF k.sel.lms = <<>> THEN "3h" ELSE "1d")}
    ELSE {Absent, Present("")}

CommentValues == {Absent, Present(""), Present("bogus"), Present("1h"),
                  Present("3h"), Present("1d")}

\* the values a read of key k may find when cm was read before: the one
\* found then, if any
Lookup(cm, k) ==
    IF k \in DOMAIN cm THEN {cm[k]} ELSE CommentChoices(k)

\* every way of reading all of the keys ks after cm
ReadAllAfter(cm, ks) ==
    {f \in [ks -> CommentValues] : \A k \in ks : f[k] \in Lookup(cm, k)}

ReadAll(ks) == ReadAllAfter(comments, ks)

\* every way of reading the keys of the sequence keys in turn, stopping at
\* the first one that is present (HasComment(a) || HasComment(b) || ...)
ReadUntilPresent(keys) ==
    UNION {{f \in ReadAll({keys[j] : j \in 1..n}) :
               /\ \A j \in 1..(n - 1) : ~f[keys[j]].present
               /\ (n = Len(keys) \/ f[keys[n]].present)} : n \in 1..Len(keys)}

\* AnyPresent, were no comment ever found
AnyPresentNever(f) == FALSE

AnyPresent(f) == \E k \in DOMAIN f : f[k].present

(***************************************************************************)
(* The sibling entries.                                                    *)
(***************************************************************************)
Entry(kind, name, err) == [kind |-> kind, name |-> name, err |-> err]

EntryLists ==
    {<<>>,
     <<Entry("alerting", "X", FALSE), Entry("recording", "bar", FALSE)>>,
     <<Entry("alerting", "X", TRUE), Entry("recording", "bar", TRUE)>>,
     <<Entry("recording", "X", FALSE), Entry("alerting", "bar", FALSE)>>}

ReadEntries == IF entries.known THEN {entries.list} ELSE EntryLists

\* the text of a bare word, as String() gives it for a selector of that name
PlainText(name) == [name |-> name, lms |-> <<>>, offset |-> 0]

(***************************************************************************)
(* The backend.  Every range query is answered for the window that ends at *)
(* WindowEnd and is rangeLookback long, in samples rangeStep apart.        *)
(***************************************************************************)
WindowEnd == 100 * Day
WindowStart == WindowEnd - rangeLookback
WindowSteps == rangeLookback \div rangeStep

\* n samples, rangeStep apart, the first one k steps into the window
Run(k, n) == [i \in 1..n |-> WindowStart + (k + i - 1) * rangeStep]

Answer(samples) ==
    [err |-> FALSE, Start |-> WindowStart, End |-> WindowEnd, Samples |-> samples]

FailedAnswer == [err |-> TRUE, Start |-> 0, End |-> 0, Samples |-> <<>>]

Series(lbls, values) == [Metric |-> lbls, Values |-> values]

StepsIn(d) == d \div rangeStep

\* count(<selector>) over the window: never there; there all week; there
\* from the start until three days ago; until defaultMinAge ago; only
\* between two days in and three days ago; there twice for an hour
CountAnswers ==
    {Answer(<<>>),
     Answer(<<Series({}, Run(0, WindowSteps + 1))>>),
     Answer(<<Series({}, Run(0, WindowSteps + 1 - StepsIn(3 * Day)))>>),
     Answer(<<Series({}, Run(0, WindowSteps - StepsIn(defaultMinAge)))>>),
     Answer(<<Series({}, Run(StepsIn(2 * Day), StepsIn(2 * Day) + 1))>>),
     Answer(<<Series({}, Run(0, 12) \o Run(StepsIn(3 * Day), 12))>>)}

\* count(<selector>) by (name) over the window: never there; one value all
\* week; two values for an hour each; one value there twice for an hour
GroupedAnswers(name) ==
    {Answer(<<>>),
     Answer(<<Series({<<name, "a">>}, Run(0, WindowSteps + 1))>>),
     Answer(<<Series({<<name, "a">>}, Run(0, 12)),
              Series({<<name, "b">>}, Run(StepsIn(3 * Day), 12))>>),
     Answer(<<Series({<<name, "a">>}, Run(0, 12) \o Run(StepsIn(3 * Day), 12))>>)}

LabelUniverse == {"job", "inst"}

\* what serieTimeRanges returns for the count queries of Check
CountRanges ==
    {serieTimeRanges(qr, rangeStep) : qr \in CountAnswers \cup {FailedAnswer}}

GroupedRanges ==
    UNION {{[name |-> n, tr |-> serieTimeRanges(qr, rangeStep)] :
               qr \in GroupedAnswers(n) \cup {FailedAnswer}} : n \in LabelUniverse}

\* prom.Query: an error, or the value of each series returned
InstantAnswers ==
    {[err |-> TRUE, Series |-> <<>>],
     [err |-> FALSE, Series |-> <<>>],
     [err |-> FALSE, Series |-> <<2, 1>>]}

RECURSIVE sumSeries(_, _)
sumSeries(series, i) ==
    IF i > Len(series) THEN 0 ELSE series[i] + sumSeries(series, i + 1)

instantSeriesCount(qr) ==
    IF qr.err THEN [err |-> TRUE, count |-> 0]
    ELSE [err |-> FALSE, count |-> sumSeries(qr.Series, 1)]

Query(kind, sel, by, failed) ==
    [kind |-> kind, sel |-> sel, by |-> by, failed |-> failed]

(***************************************************************************)
(* The rules checked: the selectors their expressions are made of.         *)
(***************************************************************************)
sBar == VS("bar", <<>>, 0)
sFoo == VS("foo", <<Matcher(MatchEqual, "job", "a")>>, 0)
sFooOffset == VS("foo", <<Matcher(MatchEqual, "job", "a")>>, 5 * Minute)
sFooTwo ==
    VS("foo", <<Matcher(MatchEqual, "job", "a"),
                Matcher(MatchRegexp, "inst", "b.*")>>, 0)
sFooNot == VS("foo", <<Matcher(MatchNotEqual, "job", "a")>>, 0)
sAlerts == VS("ALERTS", <<>>, 0)
sAlertsEqual == VS("ALERTS", <<Matcher(MatchEqual, "alertname", "X")>>, 0)
sAlertsNotEqual == VS("ALERTS", <<Matcher(MatchNotEqual, "alertname", "X")>>, 0)
sAlertsRegexp == VS("ALERTS", <<Matcher(MatchRegexp, "alertname", "X")>>, 0)
sAlertsForState ==
    VS("ALERTS_FOR_STATE", <<Matcher(MatchEqual, "alertname", "X")>>, 0)
sAlertsByLabel ==
    VS("", <<Matcher(MatchEqual, MetricName, "ALERTS"),
             Matcher(MatchEqual, "alertname", "X")>>, 0)

Expr(query) == [SyntaxError |-> FALSE, Query |-> query]

Exprs ==
    {[SyntaxError |-> TRUE, Query |-> Inner(<<>>)]}
    \cup {Expr(Leaf(s)) : s \in {sBar, sFoo, sFooTwo, sFooNot, sAlerts,
                                 sAlertsEqual, sAlertsNotEqual, sAlertsRegexp,
                                 sAlertsForState, sAlertsByLabel}}
    \cup {Expr(Inner(<<Leaf(sFooOffset)>>))}
    \cup {Expr(Inner(<<Leaf(p[1]), Leaf(p[2])>>)) :
            p \in {<<sBar, sFoo>>, <<sFoo, sBar>>, <<sFoo, sFooOffset>>,
                   <<sFooOffset, sFoo>>, <<sBar, sBar>>, <<sAlertsEqual, sFoo>>,
                   <<sBar, sAlertsEqual>>, <<sAlertsEqual, sAlertsEqual>>}}
    \cup {Expr(Inner(<<Inner(<<Leaf(sBar)>>), Inner(<<Leaf(sBar), Leaf(sFoo)>>)>>))}

(***************************************************************************)
(* Pieces of Check.                                                        *)
(***************************************************************************)
\* lines 66-74: the name of the metric, from the __name__ matcher if need be
RECURSIVE nameFromMatchers(_, _)
nameFromMatchers(lms, i) ==
    IF i > Len(lms) THEN ""
    ELSE IF lms[i].Name = MetricName /\ lms[i].Type = MatchEqual
         THEN lms[i].Value
         ELSE nameFromMatchers(lms, i + 1)

metricNameOf(sel) ==
    IF sel.Name = "" THEN nameFromMatchers(sel.LabelMatchers, 1) ELSE sel.Name

isAlertsMetric(name) == name = "ALERTS" \/ name = "ALERTS_FOR_STATE"

\* lines 78-83: the value of the last alertname matcher that is no regexp
RECURSIVE alertnameFrom(_, _, _)
alertnameFrom(lms, i, found) ==
    IF i > Len(lms) THEN found
    ELSE alertnameFrom(lms, i + 1,
            IF lms[i].Name = "alertname" /\ lms[i].Type /= MatchRegexp
               /\ lms[i].Type /= MatchNotRegexp
            THEN lms[i].Value ELSE found)

alertnameOf(sel) == alertnameFrom(sel.LabelMatchers, 1, "")

\* lines 86-94: is there an alerting rule of that name, free of errors
hasAlertingRule(es, alertname) ==
    \E i \in DOMAIN es :
        es[i].kind = "alerting" /\ ~es[i].err /\ es[i].name = alertname

\* hasRecordingRule, were rules that failed to parse taken too
hasRecordingRuleDespiteError(es, bare) ==
    \E i \in DOMAIN es :
        es[i].kind = "recording" /\ PlainText(es[i].name) = bare

\* lines 147-155: is there a recording rule for that metric, free of errors
hasRecordingRule(es, bare) ==
    \E i \in DOMAIN es :
        es[i].kind = "recording" /\ ~es[i].err /\ PlainText(es[i].name) = bare

\* lines 118-123
labelNamesOf(sel) ==
    LET lms == SelectSeq(sel.LabelMatchers, LAMBDA lm : lm.Name /= MetricName)
    IN  [i \in DOMAIN lms |-> lms[i].Name]

\* line 186-187: the bare selector with name=~".+" added
withLabel(sel, name) ==
    LET l == stripLabels(sel)
    IN  [l EXCEPT !.LabelMatchers = Append(@, Matcher(MatchRegexp, name, ".+"))]

\* lines 261-264
labelSelectorOf(sel, lm) ==
    [Name |-> metricNameOf(sel), LabelMatchers |-> <<lm>>, Offset |-> 0]

\* isHighChurn, were the average life of the intervals not looked at
isHighChurnByCount(tr, name) ==
    Cardinality(labelValues(tr, name)) = Len(tr.ranges)

\* line 209
isHighChurn(tr, name) ==
    Cardinality(labelValues(tr, name)) = Len(tr.ranges)
    /\ avgLife(tr) < duration(tr) \div 2

\* lines 218-220
metricWasAlwaysThere(tr) ==
    /\ Len(tr.ranges) = 1
    /\ ~(oldest(tr) > tr.from + rangeStep)
    /\ newest(tr) < tr.until - rangeStep

\* lines 299-301; the 1 is the smallest duration there is
matcherWasAlwaysThere(tr) ==
    /\ Len(tr.ranges) = 1
    /\ ~(oldest(tr) > (tr.until + (rangeLookback - 1)) + rangeStep)
    /\ newest(tr) < tr.until - rangeStep

\* lines 227 and 308
goneForLessThan(tr, age) == ~(newest(tr) < tr.until - age)

\* churnSeverity, were churn to make no difference
churnSeverityAlwaysBug(name, churning) == Bug

\* lines 278-285
churnSeverity(name, churning) ==
    IF \E i \in DOMAIN churning : churning[i] = name THEN Warning ELSE Bug

\* minAgeKeys, were the global comment looked up last
minAgeKeysGlobalLast(sel) ==
    <<MinAgeKey(FALSE, String(stripLabels(sel))),
      MinAgeKey(FALSE, String(sel)),
      MinAgeKey(TRUE, NoString)>>

minAgeKeys(sel) ==
    <<MinAgeKey(TRUE, NoString),
      MinAgeKey(FALSE, String(stripLabels(sel))),
      MinAgeKey(FALSE, String(sel))>>

\* minAgeLoop, were a value that does not parse to undo what was resolved
RECURSIVE minAgeLoopForgetting(_, _, _, _)
minAgeLoopForgetting(cm, keys, i, acc) ==
    IF i > Len(keys) THEN acc
    ELSE LET cmt == cm[keys[i]]
             dur == ParseDuration(cmt.Value)
         IN  IF ~cmt.present THEN minAgeLoopForgetting(cm, keys, i + 1, acc)
             ELSE IF dur.err
                  THEN minAgeLoopForgetting(cm, keys, i + 1,
                         [acc EXCEPT !.minAge = defaultMinAge,
                                     !.problems = Append(@,
                            Problem(CommentFragment(keys[i], cmt.Value),
                                    Text("failed to parse pint comment as duration",
                                         NoString, "", NoMatcher, NoSince,
                                         NoSince, FALSE),
                                    Warning))])
                  ELSE minAgeLoopForgetting(cm, keys, i + 1,
                                            [acc EXCEPT !.minAge = dur.dur])

\* the loop of getMinAge over its three keys; cm is the rule's comments
RECURSIVE minAgeLoop(_, _, _, _)
minAgeLoop(cm, keys, i, acc) ==
    IF i > Len(keys) THEN acc
    ELSE LET cmt == cm[keys[i]]
             dur == ParseDuration(cmt.Value)
         IN  IF ~cmt.present THEN minAgeLoop(cm, keys, i + 1, acc)
             ELSE IF dur.err
                  THEN minAgeLoop(cm, keys, i + 1,
                         [acc EXCEPT !.problems = Append(@,
                            Problem(CommentFragment(keys[i], cmt.Value),
                                    Text("failed to parse pint comment as duration",
                                         NoString, "", NoMatcher, NoSince,
                                         NoSince, FALSE),
                                    Warning))])
                  ELSE minAgeLoop(cm, keys, i + 1, [acc EXCEPT !.minAge = dur.dur])

getMinAge(cm, sel) ==
    minAgeLoop(cm, minAgeKeys(sel), 1,
               [minAge |-> defaultMinAge, problems |-> <<>>])

ignoreKeys(sel, labelName) ==
    <<IgnoreKey(TRUE, NoString, labelName),
      IgnoreKey(FALSE, String(stripLabels(sel)), labelName),
      IgnoreKey(FALSE, String(sel), labelName)>>

\* isLabelValueIgnored, were no comment to count
isLabelValueIgnoredNever(f) == FALSE

\* lines 461-473, f being what the rule was found to carry under ignoreKeys
isLabelValueIgnored(f) == AnyPresent(f)

disableKeys(sel) ==
    <<DisableKey(String(sel)), DisableKey(String(stripLabels(sel)))>>

\* the clock as time.Since may find it: where it was, or half an hour on
ClockTick == 30 * Minute
ClockReads ==
    {[now |-> now, ticks |-> ticks]}
    \cup (IF ticks < MaxTicks
          THEN {[now |-> now + ClockTick, ticks |-> ticks + 1]} ELSE {})

(***************************************************************************)
(* The state machine of Check.  An action is one stretch of the function   *)
(* between two places where it waits for the backend or goes round a loop. *)
(* Cur is what the variables an action may change hold now; an action      *)
(* picks one of the outcomes its code can have and moves to it.            *)
(***************************************************************************)
Cur ==
    [pc |-> pc, idx |-> idx, comments |-> comments, entries |-> entries,
     now |-> now, ticks |-> ticks, problems |-> problems, queries |-> queries,
     li |-> li, mi |-> mi, trs |-> trs, trsLabelCount |-> trsLabelCount,
     trsLabel |-> trsLabel, highChurnLabels |-> highChurnLabels,
     minAge |-> minAge, count |-> count]

Becomes(o) ==
    /\ pc' = o.pc
    /\ idx' = o.idx
    /\ comments' = o.comments
    /\ entries' = o.entries
    /\ now' = o.now
    /\ ticks' = o.ticks
    /\ problems' = o.problems
    /\ queries' = o.queries
    /\ li' = o.li
    /\ mi' = o.mi
    /\ trs' = o.trs
    /\ trsLabelCount' = o.trsLabelCount
    /\ trsLabel' = o.trsLabel
    /\ highChurnLabels' = o.highChurnLabels
    /\ minAge' = o.minAge
    /\ count' = o.count

\* Continue, were a "continue" to end the loop over the selectors
ContinueEndsLoop(o) == [o EXCEPT !.pc = "done"]

\* "continue" in the selector loop
Continue(o) == [o EXCEPT !.pc = "next", !.idx = idx + 1]
Add(o, p) == [o EXCEPT !.problems = Append(@, p)]
AddAll(o, ps) == [o EXCEPT !.problems = @ \o ps]
Asked(o, kind, sel, by, failed) ==
    [o EXCEPT !.queries = Append(@, Query(kind, sel, by, failed))]
Read(o, f) == [o EXCEPT !.comments = f @@ @]
At(o, c) == [o EXCEPT !.now = c.now, !.ticks = c.ticks]
Knowing(o, es) == [o EXCEPT !.entries = [known |-> TRUE, list |-> es]]

bareSelector == stripLabels(selector)

\* lines 41-50
Start ==
    /\ pc = "start"
    /\ IF expr.SyntaxError
       THEN pc' = "done" /\ UNCHANGED selectors
       ELSE pc' = "next" /\ selectors' = getSelectors(expr.Query)
    /\ UNCHANGED <<expr, comments, entries, now, ticks, idx, selector, done,
                   problems, queries, labelNames, li, mi, trs, trsLabelCount,
                   trsLabel, highChurnLabels, minAge, count, selFirst, trIn, trOut>>

\* line 365
Return ==
    /\ pc = "next"
    /\ idx > Len(selectors)
    /\ pc' = "done"
    /\ UNCHANGED <<expr, comments, entries, now, ticks, selectors, idx,
                   selector, done, problems, queries, labelNames, li, mi, trs,
                   trsLabelCount, trsLabel, highChurnLabels, minAge, count, selFirst,
                   trIn, trOut>>

\* alreadyDone, were the texts seen never looked at
alreadyDoneNever(sel, seen) == FALSE

\* is this selector one the loop has seen (line 52)
alreadyDone(sel, seen) == String(sel) \in seen

\* lines 51-56: the next selector, skipped if its text was seen before
NextSelector ==
    /\ pc = "next"
    /\ idx <= Len(selectors)
    /\ selector' = selectors[idx]
    /\ IF alreadyDone(selectors[idx], done)
       THEN pc' = "next" /\ idx' = idx + 1 /\ done' = done
       ELSE pc' = "disable" /\ idx' = idx
            /\ done' = done \cup {String(selectors[idx])}
    /\ selFirst' = Len(problems)
    /\ labelNames' = <<>>
    /\ li' = 0
    /\ mi' = 0
    /\ trs' = NoRanges
    /\ trsLabelCount' = NoRanges
    /\ trsLabel' = NoRanges
    /\ highChurnLabels' = <<>>
    /\ minAge' = 0
    /\ count' = 0
    /\ UNCHANGED <<expr, comments, entries, now, ticks, selectors, problems,
                   queries, trIn, trOut>>

\* lines 58-64
CheckDisabled ==
    /\ pc = "disable"
    /\ \E f \in ReadUntilPresent(disableKeys(selector)) :
          Becomes(IF AnyPresent(f) THEN Continue(Read(Cur, f))
                  ELSE [Read(Cur, f) EXCEPT !.pc = "special"])
    /\ UNCHANGED <<expr, selectors, selector, done, labelNames, selFirst,
                   trIn, trOut>>

alertsProblem(sel, es, alertname) ==
    IF hasAlertingRule(es, alertname)
    THEN Problem(Fragment(String(sel)),
                 Text("metric is generated by alerts and found alerting rule",
                      String(sel), alertname, NoMatcher, NoSince, NoSince, FALSE),
                 Information)
    ELSE Problem(Fragment(String(sel)),
                 Text("metric is generated by alerts but didn't found any rule",
                      String(sel), alertname, NoMatcher, NoSince, NoSince, FALSE),
                 Bug)

\* lines 66-123
SpecialCase ==
    /\ pc = "special"
    /\ IF isAlertsMetric(metricNameOf(selector))
       THEN /\ labelNames' = labelNames
            /\ IF alertnameOf(selector) /= ""
               THEN \E es \in ReadEntries :
                       Becomes(Continue(Add(Knowing(Cur, es),
                          alertsProblem(selector, es, alertnameOf(selector)))))
               ELSE Becomes(Continue(Cur))
       ELSE /\ labelNames' = labelNamesOf(selector)
            /\ Becomes([Cur EXCEPT !.pc = "instant"])
    /\ UNCHANGED <<expr, selectors, selector, done, selFirst, trIn, trOut>>

\* foundSeries, were no count ever enough
foundSeriesNever(n) == FALSE

\* line 132: does the selector return anything now
foundSeries(n) == n > 0

\* lines 125-135
InstantQuery ==
    /\ pc = "instant"
    /\ \E qr \in InstantAnswers :
          LET r == instantSeriesCount(qr)
              o == [Asked(Cur, "instant", String(selector), "", r.err)
                       EXCEPT !.count = r.count]
          IN  Becomes(IF r.err
                      THEN Continue(Add(o, queryProblem("failed", String(selector))))
                      ELSE IF foundSeries(r.count) THEN Continue(o)
                      ELSE [o EXCEPT !.pc = "bare"])
    /\ UNCHANGED <<expr, selectors, selector, done, labelNames, selFirst,
                   trIn, trOut>>

neverThereProblem(bare, es, since) ==
    IF hasRecordingRule(es, bare)
    THEN Problem(Fragment(bare),
                 Text("didn't have any series but found recording rule",
                      bare, "", NoMatcher, since, NoSince, FALSE),
                 Information)
    ELSE Problem(Fragment(bare),
                 Text("didn't have any series", bare, "", NoMatcher, since,
                      NoSince, FALSE),
                 Bug)

\* lines 137-182
BareQuery ==
    /\ pc = "bare"
    /\ \E tr \in CountRanges :
          LET o == Asked(Cur, "range", String(bareSelector), "", tr.err)
          IN  IF tr.err
              THEN Becomes(Continue(Add(o,
                      queryProblem("failed", String(bareSelector)))))
              ELSE IF Len(tr.ranges) = 0
              THEN \E es \in ReadEntries, c \in ClockReads :
                      Becomes(Continue(Add(
                         At(Knowing([o EXCEPT !.trs = tr], es), c),
                         neverThereProblem(String(bareSelector), es,
                                           sinceDesc(c.now, tr.from)))))
              ELSE Becomes([o EXCEPT !.trs = tr, !.highChurnLabels = <<>>,
                                     !.li = 1, !.pc = "labels"])
    /\ UNCHANGED <<expr, selectors, selector, done, labelNames, selFirst,
                   trIn, trOut>>

noLabelProblem(sel, name, since) ==
    Problem(Fragment(String(sel)),
            Text("there are no series with label", String(stripLabels(sel)),
                 name, NoMatcher, since, NoSince, FALSE),
            Bug)

\* lines 185-212, one turn of the loop over labelNames
LabelQuery ==
    /\ pc = "labels"
    /\ li <= Len(labelNames)
    /\ \E g \in {x \in GroupedRanges : x.name = labelNames[li]} :
          LET name == labelNames[li]
              tr == g.tr
              o == [Asked(Cur, "range", String(withLabel(selector, name)), name,
                          tr.err) EXCEPT !.li = li + 1]
              churn == IF isHighChurn(tr, name)
                       THEN Append(highChurnLabels, name) ELSE highChurnLabels
          IN  IF tr.err
              THEN Becomes(Add(o, queryProblem("failed", String(selector))))
              ELSE IF Len(withLabelName(tr, name)) = 0
              THEN \E c \in ClockReads :
                      Becomes(Add(At([o EXCEPT !.trsLabelCount = tr,
                                               !.highChurnLabels = churn], c),
                                  noLabelProblem(selector, name,
                                                 sinceDesc(c.now, tr.from))))
              ELSE Becomes([o EXCEPT !.trsLabelCount = tr,
                                     !.highChurnLabels = churn])
    /\ UNCHANGED <<expr, selectors, selector, done, labelNames, selFirst,
                   trIn, trOut>>

\* stopAfterLabels, were the problems found never to end the work
stopAfterLabelsNever(found, first) == FALSE

\* line 213: do the problems found so far end the work on this selector
stopAfterLabels(found, first) == Len(found) > 0

metricGoneProblem(bare, since) ==
    Problem(Fragment(bare),
            Text("doesn't currently have metric, it was last present",
                 bare, "", NoMatcher, since, NoSince, FALSE),
            Bug)

\* lines 213-248
AfterLabels ==
    /\ pc = "labels"
    /\ li > Len(labelNames)
    /\ IF stopAfterLabels(problems, selFirst)
       THEN Becomes(Continue(Cur))
       ELSE IF metricWasAlwaysThere(trs)
       THEN \E f \in ReadAll({minAgeKeys(selector)[i] : i \in 1..3}) :
               LET r == getMinAge(f @@ comments, selector)
                   o == AddAll([Read(Cur, f) EXCEPT !.minAge = r.minAge],
                               r.problems)
               IN  IF goneForLessThan(trs, r.minAge)
                   THEN Becomes(Continue(o))
                   ELSE \E c \in ClockReads :
                           Becomes(Continue(Add(At(o, c),
                              metricGoneProblem(String(bareSelector),
                                 sinceDesc(c.now, newest(trs))))))
       ELSE Becomes([Cur EXCEPT !.mi = 1, !.pc = "matchers"])
    /\ UNCHANGED <<expr, selectors, selector, done, labelNames, selFirst,
                   trIn, trOut>>

noMatchProblem(sel, lm, churning, since) ==
    Problem(Fragment(String(sel)),
            Text("there are no series matching", String(stripLabels(sel)),
                 lm.Name, lm, since, NoSince,
                 churnSeverity(lm.Name, churning) = Warning),
            churnSeverity(lm.Name, churning))

matcherGoneProblem(sel, lm, since) ==
    Problem(Fragment(String(labelSelectorOf(sel, lm))),
            Text("doesn't currently have series matching, last present",
                 String(stripLabels(sel)), "", lm, since, NoSince, FALSE),
            Bug)

\* matcherSometimesProblem, were it a Bug
matcherSometimesProblemAsBug(sel, lm, life) ==
    Problem(Fragment(String(sel)),
            Text("metric with label is only sometimes present",
                 String(stripLabels(sel)), "", lm, NoSince, life, FALSE),
            Bug)

matcherSometimesProblem(sel, lm, life) ==
    Problem(Fragment(String(sel)),
            Text("metric with label is only sometimes present",
                 String(stripLabels(sel)), "", lm, NoSince, life, FALSE),
            Warning)

\* is the matcher one the loop of lines 250-345 looks at (lines 251-256)
isCheckedMatcher(lm) ==
    /\ lm.Name /= MetricName
    /\ ~(lm.Type /= MatchEqual /\ lm.Type /= MatchRegexp)

\* lines 261-344: the matcher lm, queried, with o the state so far
MatcherOutcomes(o, lm) ==
    UNION {
      LET q == Asked(o, "range", String(labelSelectorOf(selector, lm)), "", tr.err)
          t == [q EXCEPT !.trsLabel = tr]
      IN  IF tr.err
          THEN {Add(q, queryProblem("failed", String(labelSelectorOf(selector, lm))))}
          ELSE IF Len(tr.ranges) = 0
          THEN {Add(At(t, c), noMatchProblem(selector, lm, highChurnLabels,
                                             sinceDesc(c.now, trs.from))) :
                  c \in ClockReads}
          ELSE IF matcherWasAlwaysThere(tr)
          THEN UNION {
                 LET r == getMinAge(f @@ comments, selector)
                     m == AddAll([Read(t, f) EXCEPT !.minAge = r.minAge],
                                 r.problems)
                 IN  IF goneForLessThan(tr, r.minAge)
                     THEN {m}
                     ELSE {Add(At(m, c), matcherGoneProblem(selector, lm,
                                  sinceDesc(c.now, newest(tr)))) :
                             c \in ClockReads}
                 : f \in ReadAll({minAgeKeys(selector)[i] : i \in 1..3})}
          ELSE IF Len(tr.ranges) > 1
          THEN {Add(t, matcherSometimesProblem(selector, lm,
                                               HumanizeDuration(avgLife(tr))))}
          ELSE {t}
      : tr \in CountRanges}

\* lines 250-345, one turn of the loop over selector.LabelMatchers
MatcherStep ==
    /\ pc = "matchers"
    /\ mi <= Len(selector.LabelMatchers)
    /\ LET lm == selector.LabelMatchers[mi]
           o == [Cur EXCEPT !.mi = mi + 1]
       IN  IF ~isCheckedMatcher(lm)
           THEN Becomes(o)
           ELSE \E f \in ReadUntilPresent(ignoreKeys(selector, lm.Name)) :
                   IF isLabelValueIgnored(f)
                   THEN Becomes(Read(o, f))
                   ELSE \E n \in MatcherOutcomes(Read(o, f), lm) : Becomes(n)
    /\ UNCHANGED <<expr, selectors, selector, done, labelNames, selFirst,
                   trIn, trOut>>

metricSometimesProblem(bare, life, since) ==
    Problem(Fragment(bare),
            Text("metric is only sometimes present", bare, "", NoMatcher,
                 since, life, FALSE),
            Warning)

\* lines 346-363
AfterMatchers ==
    /\ pc = "matchers"
    /\ mi > Len(selector.LabelMatchers)
    /\ IF Len(problems) > 0
       THEN Becomes(Continue(Cur))
       ELSE IF Len(trs.ranges) > 1
       THEN \E c \in ClockReads :
               Becomes(Continue(Add(At(Cur, c),
                  metricSometimesProblem(String(bareSelector),
                     HumanizeDuration(avgLife(trs)),
                     sinceDesc(c.now, trs.from)))))
       ELSE Becomes(Continue(Cur))
    /\ UNCHANGED <<expr, selectors, selector, done, labelNames, selFirst,
                   trIn, trOut>>

Init ==
    /\ pc = "start"
    /\ expr \in Exprs
    /\ comments = <<>>
    /\ entries = [known |-> FALSE, list |-> <<>>]
    /\ now = WindowEnd
    /\ ticks = 0
    /\ selectors = <<>>
    /\ idx = 1
    /\ selector = NoVS
    /\ done = {}
    /\ problems = <<>>
    /\ queries = <<>>
    /\ labelNames = <<>>
    /\ li = 0
    /\ mi = 0
    /\ trs = NoRanges
    /\ trsLabelCount = NoRanges
    /\ trsLabel = NoRanges
    /\ highChurnLabels = <<>>
    /\ minAge = 0
    /\ count = 0
    /\ selFirst = 0
    /\ trIn = FailedAnswer
    /\ trOut = NoRanges

Next ==
    \/ Start
    \/ NextSelector
    \/ CheckDisabled
    \/ SpecialCase
    \/ InstantQuery
    \/ BareQuery
    \/ LabelQuery
    \/ AfterLabels
    \/ MatcherStep
    \/ AfterMatchers
    \/ Return

Spec == Init /\ [][Next]_vars

(***************************************************************************)
(* serieTimeRanges on its own: an answer of the backend, and what          *)
(* serieTimeRanges makes of it.                                            *)
(***************************************************************************)
RECURSIVE SortedSeq(_)
SortedSeq(S) ==
    IF S = {} THEN <<>>
    ELSE LET m == CHOOSE x \in S : \A y \in S : x <= y
         IN  <<m>> \o SortedSeq(S \ {m})

\* the moments samples are taken at, counted from the start of the window
SampleGrid ==
    {0, rangeStep, 2 * rangeStep, 2 * rangeStep + 1, 5 * rangeStep,
     6 * rangeStep - 1}

SampleRuns ==
    {SortedSeq({WindowStart + t : t \in S}) :
        S \in {T \in SUBSET SampleGrid : Cardinality(T) <= MaxSamples}}

SampleSeries ==
    {Series(l, v) : l \in {{}, {<<"job", "a">>}}, v \in SampleRuns}

RangeAnswers ==
    {Answer(<<>>)} \cup {Answer(<<a>>) : a \in SampleSeries}
    \cup {Answer(<<a, b>>) : a \in SampleSeries, b \in SampleSeries}

InitRanges ==
    /\ pc = "ranges"
    /\ trIn \in RangeAnswers
    /\ trOut = NoRanges
    /\ expr = [SyntaxError |-> TRUE, Query |-> Inner(<<>>)]
    /\ comments = <<>>
    /\ entries = [known |-> FALSE, list |-> <<>>]
    /\ now = WindowEnd
    /\ ticks = 0
    /\ selectors = <<>>
    /\ idx = 1
    /\ selector = NoVS
    /\ done = {}
    /\ problems = <<>>
    /\ queries = <<>>
    /\ labelNames = <<>>
    /\ li = 0
    /\ mi = 0
    /\ trs = NoRanges
    /\ trsLabelCount = NoRanges
    /\ trsLabel = NoRanges
    /\ highChurnLabels = <<>>
    /\ minAge = 0
    /\ count = 0
    /\ selFirst = 0

\* lines 393-431, after the call of prom.RangeQuery
BuildRanges ==
    /\ pc = "ranges"
    /\ trOut' = serieTimeRanges(trIn, rangeStep)
    /\ pc' = "built"
    /\ UNCHANGED <<expr, comments, entries, now, ticks, selectors, idx,
                   selector, done, problems, queries, labelNames, li, mi, trs,
                   trsLabelCount, trsLabel, highChurnLabels, minAge, count, selFirst,
                   trIn>>

NextRanges == BuildRanges

SpecRanges == InitRanges /\ [][NextRanges]_vars

(***************************************************************************)
(* What the claims speak of.                                               *)
(***************************************************************************)
\* the problems added since the current selector began, those that name a
\* selector (the others name a comment of the rule)
OwnProblems(all, first) ==
    SelectSeq(SubSeq(all, first + 1, Len(all)), LAMBDA p : p.Fragment.key = NoKey)

LastQuery(qs) == qs[Len(qs)]

\* one backend call was made in the step
AskedOnce == Len(queries') = Len(queries) + 1

\* the rules that agree with the comments cm on what cm holds, as far as the
\* min-age of sel goes
MinAgeRules(cm, sel) ==
    {f @@ cm : f \in ReadAllAfter(cm, {minAgeKeys(sel)[i] : i \in 1..3})}

(***************************************************************************)
(* C3                                                                      *)
(***************************************************************************)
\* the time stamps of the label set lbls in trIn, in the order they arrive
RECURSIVE Arrivals(_, _, _)
Arrivals(samples, lbls, i) ==
    IF i > Len(samples) THEN <<>>
    ELSE (IF samples[i].Metric = lbls THEN samples[i].Values ELSE <<>>)
         \o Arrivals(samples, lbls, i + 1)

Ascending(a) == \A i \in 1..(Len(a) - 1) : a[i] <= a[i + 1]

\* the maximal runs of a in which neighbours are at most step apart, each as
\* the interval from its first sample to step after its last
MaximalRuns(a, step) ==
    {[start |-> a[i], end |-> a[j] + step] :
        <<i, j>> \in {p \in (DOMAIN a) \X (DOMAIN a) :
                        /\ p[1] <= p[2]
                        /\ \A k \in p[1]..(p[2] - 1) : a[k + 1] - a[k] <= step
                        /\ (p[1] = 1 \/ a[p[1]] - a[p[1] - 1] > step)
                        /\ (p[2] = Len(a) \/ a[p[2] + 1] - a[p[2]] > step)}}

RangesOf(tr, lbls) ==
    SelectSeq(tr.ranges, LAMBDA r : r.labels = lbls)

LabelSetsOf(samples) == {samples[i].Metric : i \in DOMAIN samples}

\* C3: when the samples of each label set arrive in ascending order,
\* serieTimeRanges returns for each label set exactly one interval
\* [first, last+step) per maximal run of samples at most one step apart, and
\* no two intervals of one label set overlap or touch.
C3_Coalescing ==
    (pc = "built"
     /\ \A l \in LabelSetsOf(trIn.Samples) : Ascending(Arrivals(trIn.Samples, l, 1)))
    => /\ ~trOut.err
       /\ \A i \in DOMAIN trOut.ranges :
             trOut.ranges[i].labels \in LabelSetsOf(trIn.Samples)
       /\ \A l \in LabelSetsOf(trIn.Samples) :
             LET got == RangesOf(trOut, l)
                 want == MaximalRuns(Arrivals(trIn.Samples, l, 1), rangeStep)
             IN  /\ Len(got) = Cardinality(want)
                 /\ {[start |-> got[i].start, end |-> got[i].end] :
                        i \in DOMAIN got} = want
                 /\ \A i \in DOMAIN got : \A j \in DOMAIN got :
                       i /= j => (got[i].end < got[j].start
                                  \/ got[j].end < got[i].start)

\* samples at t, t+step, t+2*step and t+5*step of one label set have become
\* the intervals [t, t+3*step) and [t+5*step, t+6*step)
C3_Witness ==
    /\ pc = "built"
    /\ trIn.Samples = <<Series({}, <<WindowStart, WindowStart + rangeStep,
                                     WindowStart + 2 * rangeStep,
                                     WindowStart + 5 * rangeStep>>)>>
    /\ trOut.ranges = <<timeRange({}, WindowStart, WindowStart + 3 * rangeStep),
                        timeRange({}, WindowStart + 5 * rangeStep,
                                  WindowStart + 6 * rangeStep)>>

(***************************************************************************)
(* C2                                                                      *)
(***************************************************************************)
ValidOrAbsent(c) == c.present => ~ParseDuration(c.Value).err

\* C2: when each of the three min-age comments is absent or valid, getMinAge
\* returns the value of the one for the selector if present, else of the one
\* for the bare selector if present, else of the global one if present, else
\* two hours.
C2_MinAgePrecedence ==
    minAge /= 0 =>
       LET global == comments[MinAgeKey(TRUE, NoString)]
           bare == comments[MinAgeKey(FALSE, String(stripLabels(selector)))]
           own == comments[MinAgeKey(FALSE, String(selector))]
       IN  (ValidOrAbsent(global) /\ ValidOrAbsent(bare) /\ ValidOrAbsent(own))
           => minAge = IF own.present THEN ParseDuration(own.Value).dur
                       ELSE IF bare.present THEN ParseDuration(bare.Value).dur
                       ELSE IF global.present THEN ParseDuration(global.Value).dur
                       ELSE 2 * Hour

\* getMinAge has answered for a selector with labels whose three comments
\* are all there, valid and different: the selector's own value won
C2_Witness ==
    /\ minAge = Day
    /\ selector.Name = "foo"
    /\ comments[MinAgeKey(TRUE, NoString)] = Present("1h")
    /\ comments[MinAgeKey(FALSE, String(stripLabels(selector)))] = Present("3h")
    /\ comments[MinAgeKey(FALSE, String(selector))] = Present("1d")

(***************************************************************************)
(* C1                                                                      *)
(***************************************************************************)
\* the bare metric has exactly one interval, which starts no later than
\* from+step and ends before until-step
OneIntervalSinceStart(tr) ==
    /\ Len(tr.ranges) = 1
    /\ tr.ranges[1].start <= tr.from + rangeStep
    /\ tr.ranges[1].end < tr.until - rangeStep

IsMetricGone(p) ==
    /\ p.Severity = Bug
    /\ p.Text.msg = "doesn't currently have metric, it was last present"

\* C1: for a selector whose instant count is 0, whose step 3 produced no
\* finding and whose bare metric has exactly one interval that starts no
\* later than from+step and ends before until-step: if the interval ends at or
\* after until-minAge no finding is produced for the selector, and if it ends
\* earlier exactly one is, a Bug saying when the metric was last present.
C1_Disappearance ==
    [][(pc = "labels" /\ li > Len(labelNames) /\ Len(problems) = selFirst
        /\ OneIntervalSinceStart(trs))
       => \A rule \in MinAgeRules(comments', selector) :
             LET own == OwnProblems(problems', selFirst)
                 age == getMinAge(rule, selector).minAge
             IN  IF trs.ranges[1].end >= trs.until - age
                 THEN own = <<>>
                 ELSE Len(own) = 1 /\ IsMetricGone(own[1])]_vars

(***************************************************************************)
(* C4                                                                      *)
(***************************************************************************)
ValuesOf(tr, name) ==
    {v \in {"a", "b"} : \E i \in DOMAIN tr.ranges : <<name, v>> \in tr.ranges[i].labels}

\* as many values of the label as intervals, and intervals that last less
\* than half the window on average (no interval at all counts as a life of 0)
LooksLikeChurn(tr, name) ==
    /\ Cardinality(ValuesOf(tr, name)) = Len(tr.ranges)
    /\ \/ Len(tr.ranges) = 0
       \/ 2 * sumLife(tr.ranges, 1) < Len(tr.ranges) * (tr.until - tr.from)

\* C4: step 3 records a label as high-churn exactly when its grouped query
\* returned as many values of the label as intervals and the intervals last
\* less than half of until-from on average; one interval longer than half the
\* window never has the label recorded.
C4_HighChurn ==
    [][(pc = "labels" /\ li <= Len(labelNames) /\ AskedOnce
        /\ ~LastQuery(queries').failed)
       => LET name == labelNames[li]
              tr == trsLabelCount'
          IN  /\ highChurnLabels' = IF LooksLikeChurn(tr, name)
                                    THEN Append(highChurnLabels, name)
                                    ELSE highChurnLabels
              /\ (Len(tr.ranges) = 1
                  /\ 2 * (tr.ranges[1].end - tr.ranges[1].start)
                       > tr.until - tr.from)
                 => highChurnLabels' = highChurnLabels]_vars

\* step 3 has recorded a label whose two values lasted an hour each, and has
\* passed over one whose single value lasted all week
C4_Witness ==
    /\ highChurnLabels = <<"inst">>
    /\ labelNames = <<"job", "inst">>
    /\ Len(trsLabelCount.ranges) = 2
    /\ li = 3

(***************************************************************************)
(* C5                                                                      *)
(***************************************************************************)
NotIgnored(cm, sel, name) ==
    \A i \in 1..3 : ignoreKeys(sel, name)[i] \in DOMAIN cm
                    /\ ~cm[ignoreKeys(sel, name)[i]].present

Flagged(churning, name) == \E i \in DOMAIN churning : churning[i] = name

\* C5: for an equal or regexp matcher that the per-matcher loop reaches and
\* that is not ignored, a range query that returns no intervals gives exactly
\* one finding: a Warning noting churn if the label was flagged high-churn in
\* step 3, else a Bug.  The findings of steps 6, 7 and 8 are never changed
\* by churn.
C5_NeverPresent ==
    [][/\ (pc = "matchers" /\ mi <= Len(selector.LabelMatchers) /\ AskedOnce
           /\ ~LastQuery(queries').failed /\ Len(trsLabel'.ranges) = 0)
          => LET lm == selector.LabelMatchers[mi]
             IN  /\ lm.Type \in {MatchEqual, MatchRegexp}
                 /\ NotIgnored(comments', selector, lm.Name)
                 /\ Len(problems') = Len(problems) + 1
                 /\ LET p == problems'[Len(problems')]
                    IN  /\ p.Text.msg = "there are no series matching"
                        /\ p.Text.lm = lm
                        /\ p.Fragment = Fragment(String(selector))
                        /\ p.Severity = IF Flagged(highChurnLabels, lm.Name)
                                        THEN Warning ELSE Bug
                        /\ p.Text.churn = Flagged(highChurnLabels, lm.Name)
       /\ (pc = "matchers" /\ mi <= Len(selector.LabelMatchers)
           /\ selector.LabelMatchers[mi].Type \in {MatchEqual, MatchRegexp}
           /\ selector.LabelMatchers[mi].Name /= MetricName
           /\ NotIgnored(comments', selector, selector.LabelMatchers[mi].Name))
          => AskedOnce
       /\ \A i \in DOMAIN problems' :
             LET p == problems'[i]
             IN  /\ p.Text.msg = "doesn't currently have series matching, last present"
                    => p.Severity = Bug /\ ~p.Text.churn
                 /\ p.Text.msg \in {"metric with label is only sometimes present",
                                    "metric is only sometimes present"}
                    => p.Severity = Warning /\ ~p.Text.churn]_vars

\* a matcher on a label flagged in step 3 was never there: a Warning
C5_Witness ==
    /\ pc = "matchers"
    /\ Len(problems) = 1
    /\ problems[1].Severity = Warning
    /\ problems[1].Text.msg = "there are no series matching"
    /\ problems[1].Text.churn
    /\ highChurnLabels = <<"job">>

(***************************************************************************)
(* C6                                                                      *)
(***************************************************************************)
EqualAlertnames(sel) ==
    {sel.LabelMatchers[i].Value :
       i \in {j \in DOMAIN sel.LabelMatchers :
                 /\ sel.LabelMatchers[j].Name = "alertname"
                 /\ sel.LabelMatchers[j].Type = MatchEqual}}

IsSynthetic(sel) ==
    \/ sel.Name \in {"ALERTS", "ALERTS_FOR_STATE"}
    \/ /\ sel.Name = ""
       /\ \E i \in DOMAIN sel.LabelMatchers :
             /\ sel.LabelMatchers[i].Name = MetricName
             /\ sel.LabelMatchers[i].Type = MatchEqual
             /\ sel.LabelMatchers[i].Value \in {"ALERTS", "ALERTS_FOR_STATE"}

\* C6: for a selector on ALERTS or ALERTS_FOR_STATE no backend query is made;
\* with an equality matcher on alertname there is exactly one finding,
\* Information when an alerting rule free of parse errors has that name and
\* Bug when none has; without an equality matcher on alertname there is no
\* finding.
C6_Synthetic ==
    [][(pc = "special" /\ IsSynthetic(selector))
       => /\ queries' = queries
          /\ pc' = "next"
          /\ IF EqualAlertnames(selector) /= {}
             THEN /\ Len(problems') = Len(problems) + 1
                  /\ SubSeq(problems', 1, Len(problems)) = problems
                  /\ problems'[Len(problems')].Severity =
                        IF \E i \in DOMAIN entries'.list :
                              /\ entries'.list[i].kind = "alerting"
                              /\ ~entries'.list[i].err
                              /\ entries'.list[i].name \in EqualAlertnames(selector)
                        THEN Information ELSE Bug
             ELSE problems' = problems]_vars

(***************************************************************************)
(* C7                                                                      *)
(***************************************************************************)
\* C7: what is found for a selector depends on that selector alone: steps 4
\* to 8 of a selector are passed over after step 3 only if step 3 found
\* something for this selector, and step 8 reports a metric with several
\* intervals whenever steps 3 to 7 found nothing for this selector, whatever
\* was found for the selectors before it.
C7_Isolation ==
    [][/\ (pc = "labels" /\ li > Len(labelNames) /\ pc' = "next" /\ minAge' = 0)
          => Len(problems) > selFirst
       /\ (pc = "matchers" /\ mi > Len(selector.LabelMatchers)
           /\ Len(problems) = selFirst /\ Len(trs.ranges) > 1)
          => Len(problems') = Len(problems) + 1]_vars

(***************************************************************************)
(* C8                                                                      *)
(***************************************************************************)
IsMatcherGone(p) ==
    /\ p.Severity = Bug
    /\ p.Text.msg = "doesn't currently have series matching, last present"

\* C8: the Bug that a matcher is no longer present is produced only if the
\* matcher's range query returned exactly one interval that starts no later
\* than from+step, ends before until-step and ends earlier than until-minAge;
\* when all but the last hold, nothing is found for the matcher.
C8_MatcherDisappearance ==
    [][(pc = "matchers" /\ mi <= Len(selector.LabelMatchers) /\ AskedOnce
        /\ ~LastQuery(queries').failed)
       => LET own == OwnProblems(problems', Len(problems))
              tr == trsLabel'
          IN  /\ (\E i \in DOMAIN own : IsMatcherGone(own[i]))
                 => /\ OneIntervalSinceStart(tr)
                    /\ tr.ranges[1].end < tr.until - minAge'
              /\ (OneIntervalSinceStart(tr)
                  /\ ~(tr.ranges[1].end < tr.until - minAge'))
                 => own = <<>>]_vars

(***************************************************************************)
(* C9                                                                      *)
(***************************************************************************)
\* the vector selectors of a query, wherever they stand in it
RECURSIVE TreeLeaves(_)
TreeLeaves(n) ==
    (IF n.isVS THEN {n.vs} ELSE {})
    \cup UNION {TreeLeaves(n.Children[i]) : i \in DOMAIN n.Children}

\* the selector as written but for its offset
WithoutOffset(vs) == [vs EXCEPT !.Offset = 0]

InstantQueries(text) ==
    {i \in DOMAIN queries : queries[i].kind = "instant" /\ queries[i].sel = text}

IsDisabled(cm, sel) ==
    \E i \in 1..2 : disableKeys(sel)[i] \in DOMAIN cm /\ cm[disableKeys(sel)[i]].present

\* findings of which the pipeline of a selector produces at most one
OnceEach ==
    {"metric is generated by alerts and found alerting rule",
     "metric is generated by alerts but didn't found any rule",
     "didn't have any series but found recording rule",
     "didn't have any series",
     "doesn't currently have metric, it was last present",
     "metric is only sometimes present"}

\* C9: a selector text that occurs more than once in the expression, be it
\* with different offsets, goes through the pipeline once: its instant query
\* is made once (and is made, once Check has returned, unless the selector is
\* disabled or synthetic), and a finding the pipeline produces once is there
\* once.
C9_Deduplication ==
    \A vs \in TreeLeaves(expr.Query) :
        LET sel == WithoutOffset(vs)
            text == String(sel)
            sameFragment == {String(WithoutOffset(o)) :
                               o \in {l \in TreeLeaves(expr.Query) :
                                         \/ String(WithoutOffset(l)) = text
                                         \/ String(stripLabels(l)) = text}}
        IN  /\ Cardinality(InstantQueries(text)) <= 1
            /\ (pc = "done" /\ ~expr.SyntaxError)
               => Cardinality(InstantQueries(text)) =
                     IF IsDisabled(comments, sel) \/ IsSynthetic(sel) THEN 0 ELSE 1
            /\ \A m \in OnceEach :
                  Cardinality({i \in DOMAIN problems :
                                  /\ problems[i].Text.msg = m
                                  /\ problems[i].Fragment = Fragment(text)})
                     <= Cardinality(sameFragment)

\* foo{job="a"} stands twice in the expression, once with an offset; Check
\* has returned having asked for it once and found one thing
C9_Witness ==
    /\ pc = "done"
    /\ expr = Expr(Inner(<<Leaf(sFoo), Leaf(sFooOffset)>>))
    /\ Len(queries) = 2
    /\ Cardinality(InstantQueries(String(sFoo))) = 1
    /\ Len(problems) = 1
    /\ problems[1].Text.msg = "didn't have any series"

(***************************************************************************)
(* C10                                                                     *)
(***************************************************************************)
\* how far Check is from returning: the selectors still to come count most,
\* then the place in the pipeline of the selector at hand, then the turns
\* left in the loop over its labels or its matchers
Rank ==
    LET left == (Len(selectors) + 1 - idx) * 20
    IN  CASE pc = "start" -> 1000
          [] pc = "done" -> 0
          [] pc = "next" -> left + 19
          [] pc = "disable" -> left + 18
          [] pc = "special" -> left + 17
          [] pc = "instant" -> left + 16
          [] pc = "bare" -> left + 15
          [] pc = "labels" -> left + 14 - li
          [] pc = "matchers" -> left + 8 - mi
          [] OTHER -> 1000

IsQueryFailure(p) == p.Text.msg = "query failed"

IsNoLabel(p) ==
    /\ p.Severity = Bug
    /\ p.Text.msg = "there are no series with label"

\* C11: a Bug of the per-label loop (step 3) does not end that loop, which
\* goes on to ask for each remaining label; once the loop is over the
\* selector is left at that: no per-matcher query is made and nothing of
\* steps 4 to 8 is found for it.
C11_TieBreak ==
    /\ [][/\ (pc = "labels" /\ li <= Len(labelNames))
             => /\ AskedOnce
                /\ LastQuery(queries').by = labelNames[li]
                /\ pc' = "labels"
                /\ li' = li + 1
          /\ (pc = "labels" /\ li > Len(labelNames)
              /\ \E i \in (selFirst + 1)..Len(problems) : problems[i].Severity = Bug)
             => /\ pc' = "next"
                /\ idx' = idx + 1
                /\ problems' = problems
                /\ queries' = queries]_vars
    /\ [](\A i \in (selFirst + 1)..Len(problems) :
             IsNoLabel(problems[i])
             => /\ pc \in {"labels", "next", "done"}
                /\ \A j \in (i + 1)..Len(problems) :
                      problems[j].Text.msg \in {"there are no series with label",
                                                "query failed"})

\* foo{job="a", inst=~"b.*"}: no series had the label job, the label inst was
\* asked for all the same and was there, and Check returned with the one Bug
C11_Witness ==
    /\ pc = "done"
    /\ expr = Expr(Leaf(sFooTwo))
    /\ Len(problems) = 1
    /\ IsNoLabel(problems[1])
    /\ problems[1].Text.name = "job"
    /\ Len(queries) = 4
    /\ queries[3].by = "job"
    /\ queries[4].by = "inst"
    /\ ~queries[4].failed

(***************************************************************************)
(* C12                                                                     *)
(***************************************************************************)
\* the expression holds one selector text, however often
OneDistinct(e) ==
    Cardinality({String(WithoutOffset(l)) : l \in TreeLeaves(e.Query)}) = 1

\* the selector has one matcher beside its name, an equal one
SingleEqualMatcher(sel) ==
    LET lms == SelectSeq(sel.LabelMatchers, LAMBDA lm : lm.Name /= MetricName)
    IN  Len(lms) = 1 /\ lms[1].Type = MatchEqual

IsMatcherSometimes(p) ==
    /\ p.Severity = Warning
    /\ p.Text.msg = "metric with label is only sometimes present"

IsMetricSometimes(p) ==
    /\ p.Severity = Warning
    /\ p.Text.msg = "metric is only sometimes present"

NoneFailed(qs) == \A i \in DOMAIN qs : ~qs[i].failed

\* C12: in an expression of one distinct selector whose queries all succeed
\* and whose instant count is 0, a label that was there, a bare metric with
\* several intervals and a single equal matcher with several intervals give
\* exactly one finding, the Warning that the series is only sometimes there;
\* the Warning of step 8 is added only when nothing was found for the
\* selector in steps 3 to 7, so no selector gets both.
C12_Intermittent ==
    /\ [][/\ (pc = "matchers" /\ mi <= Len(selector.LabelMatchers)
              /\ selector.LabelMatchers[mi].Name /= MetricName
              /\ OneDistinct(expr) /\ SingleEqualMatcher(selector)
              /\ NoneFailed(queries') /\ AskedOnce
              /\ Len(trs.ranges) > 1 /\ Len(trsLabel'.ranges) > 1)
             => /\ Len(problems') = 1
                /\ IsMatcherSometimes(problems'[1])
                /\ problems'[1].Text.lm = selector.LabelMatchers[mi]
          /\ (pc = "matchers" /\ mi > Len(selector.LabelMatchers))
             => /\ pc' = "next"
                /\ \/ problems' = problems
                   \/ /\ Len(problems) = selFirst
                      /\ problems' = Append(problems, problems'[Len(problems')])
                      /\ IsMetricSometimes(problems'[Len(problems')])]_vars
    /\ []((pc = "done" /\ OneDistinct(expr)
           /\ \E vs \in TreeLeaves(expr.Query) : SingleEqualMatcher(vs))
          => \A i \in DOMAIN problems :
                IsMatcherSometimes(problems[i]) => Len(problems) = 1)

\* foo{job="a"} returns nothing now; foo and foo{job="a"} both came and went
\* during the week and the label job was there: one Warning, for the matcher
C12_Witness ==
    /\ pc = "done"
    /\ expr = Expr(Leaf(sFoo))
    /\ NoneFailed(queries)
    /\ Len(queries) = 4
    /\ count = 0
    /\ Len(trs.ranges) > 1
    /\ Len(trsLabel.ranges) > 1
    /\ Len(problems) = 1
    /\ IsMatcherSometimes(problems[1])

(***************************************************************************)
(* C13                                                                     *)
(***************************************************************************)
\* the rule is known to carry a disable comment for the selector or for its
\* bare selector
DisabledBy(cm, sel) ==
    \E k \in {DisableKey(String(sel)), DisableKey(String(stripLabels(sel)))} :
        k \in DOMAIN cm /\ cm[k].present

\* C13: a selector the rule disables, by its own text or by that of its bare
\* selector, is passed over: no query is made and nothing is found for it;
\* the other selectors of the expression are analysed all the same.
C13_Disable ==
    /\ [][(pc = "disable" /\ DisabledBy(comments', selector))
          => /\ pc' = "next"
             /\ idx' = idx + 1
             /\ queries' = queries
             /\ problems' = problems]_vars
    /\ [](\A vs \in TreeLeaves(expr.Query) :
             LET sel == WithoutOffset(vs)
             IN  /\ DisabledBy(comments, sel)
                    => /\ InstantQueries(String(sel)) = {}
                       /\ \A i \in DOMAIN problems :
                             problems[i].Fragment /= Fragment(String(sel))
                 /\ (pc = "done" /\ ~expr.SyntaxError
                     /\ ~DisabledBy(comments, sel) /\ ~IsSynthetic(sel))
                    => InstantQueries(String(sel)) /= {})

\* bar + foo{job="a"} with bar disabled: Check returned having asked for foo
\* alone
C13_Witness ==
    /\ pc = "done"
    /\ expr = Expr(Inner(<<Leaf(sBar), Leaf(sFoo)>>))
    /\ DisabledBy(comments, sBar)
    /\ ~DisabledBy(comments, sFoo)
    /\ Len(queries) > 0
    /\ \A i \in DOMAIN queries : queries[i].sel.name = "foo"
    /\ InstantQueries(String(sFoo)) = {1}

(***************************************************************************)
(* C14                                                                     *)
(***************************************************************************)
\* the text of the bare selector of a selector text
BareOf(text) == [text EXCEPT !.lms = <<>>]

\* C14: the instant query count(<selector>) is the first call made for a
\* selector that is neither disabled nor synthetic; if it succeeds with a
\* total above 0 the selector is accepted, with no range query and no
\* finding; if the total is 0 the range query for the bare metric comes next.
C14_InstantCheck ==
    /\ [][/\ (pc \in {"next", "disable", "special"}) => queries' = queries
          /\ (pc = "special" /\ pc' /= "next") => pc' = "instant"
          /\ (pc = "instant")
             => /\ queries' = Append(queries,
                      Query("instant", String(selector), "",
                            LastQuery(queries').failed))
                /\ (~LastQuery(queries').failed /\ count' > 0)
                   => /\ pc' = "next"
                      /\ idx' = idx + 1
                      /\ problems' = problems
                /\ (~LastQuery(queries').failed /\ count' = 0)
                   => /\ pc' = "bare"
                      /\ problems' = problems
          /\ (pc = "bare")
             => queries' = Append(queries,
                   Query("range", String(stripLabels(selector)), "",
                         LastQuery(queries').failed))]_vars
    /\ [](\A i \in DOMAIN queries :
             queries[i].kind = "range"
             => /\ i > 1
                /\ queries[i - 1].sel.name = queries[i].sel.name
                /\ queries[i - 1].kind = "instant"
                   => /\ ~queries[i - 1].failed
                      /\ queries[i] = Query("range", BareOf(queries[i - 1].sel),
                                            "", queries[i].failed))

\* bar has series now: Check asked for count(bar), nothing else, and found
\* nothing to report
C14_Witness ==
    /\ pc = "done"
    /\ expr = Expr(Leaf(sBar))
    /\ count > 0
    /\ queries = <<Query("instant", String(sBar), "", FALSE)>>
    /\ problems = <<>>

(***************************************************************************)
(* C15                                                                     *)
(***************************************************************************)
\* a recording rule among es, free of parse errors, records the metric
RecordedBy(es, metric) ==
    \E i \in DOMAIN es :
        es[i].kind = "recording" /\ ~es[i].err /\ es[i].name = metric

\* C15: when the range query for the bare metric succeeds and has no
\* intervals, exactly one finding is added for the selector and nothing more
\* is asked for it: Information if a sibling recording rule free of parse
\* errors records that metric, else the Bug that there were no series for it
\* in the lookback window.
C15_NeverThere ==
    [][(pc = "bare" /\ AskedOnce /\ ~LastQuery(queries').failed
        /\ Len(trs'.ranges) = 0)
       => /\ pc' = "next"
          /\ idx' = idx + 1
          /\ problems' = Append(problems, problems'[Len(problems')])
          /\ LET p == problems'[Len(problems')]
                 bare == stripLabels(selector)
             IN  /\ p.Fragment = Fragment(String(bare))
                 /\ p.Text.sel = String(bare)
                 /\ IF RecordedBy(entries'.list, bare.Name)
                    THEN /\ p.Severity = Information
                         /\ p.Text.msg = "didn't have any series but found recording rule"
                    ELSE /\ p.Severity = Bug
                         /\ p.Text.msg = "didn't have any series"]_vars

\* bar never had series, and a recording rule of the same file records bar
C15_Witness ==
    /\ pc = "done"
    /\ expr = Expr(Leaf(sBar))
    /\ Len(queries) = 2
    /\ NoneFailed(queries)
    /\ Len(trs.ranges) = 0
    /\ RecordedBy(entries.list, "bar")
    /\ Len(problems) = 1
    /\ problems[1].Severity = Information

(***************************************************************************)
(* C16                                                                     *)
(***************************************************************************)
\* the three comments that ignore the values of a label for a selector
IgnoreComments(sel, name) ==
    {IgnoreKey(TRUE, NoString, name),
     IgnoreKey(FALSE, String(stripLabels(sel)), name),
     IgnoreKey(FALSE, String(sel), name)}

IgnoredBy(cm, sel, name) ==
    \E k \in IgnoreComments(sel, name) : k \in DOMAIN cm /\ cm[k].present

KnownNotIgnored(cm, sel, name) ==
    \A k \in IgnoreComments(sel, name) : k \in DOMAIN cm /\ ~cm[k].present

\* C16: when the rule ignores the values of a label, for every selector, for
\* the bare selector or for the selector itself, the per-matcher loop makes
\* no query and adds no finding for a matcher on that label and goes on to
\* the next matcher; an equal or regexp matcher on a label that is not ignored
\* gets its query; and step 3 has asked for every label of the selector,
\* ignored or not.
C16_IgnoreLabelValue ==
    /\ [][(pc = "matchers" /\ mi <= Len(selector.LabelMatchers))
          => LET lm == selector.LabelMatchers[mi]
             IN  /\ pc' = "matchers"
                 /\ mi' = mi + 1
                 /\ IgnoredBy(comments', selector, lm.Name)
                    => /\ queries' = queries
                       /\ problems' = problems
                 /\ (lm.Type \in {MatchEqual, MatchRegexp}
                     /\ KnownNotIgnored(comments', selector, lm.Name))
                    => queries' = Append(queries,
                          Query("range",
                                [name |-> String(stripLabels(selector)).name,
                                 lms |-> <<lm>>, offset |-> 0],
                                "", LastQuery(queries').failed))]_vars
    /\ [](pc = "matchers"
          => \A i \in DOMAIN selector.LabelMatchers :
                selector.LabelMatchers[i].Name /= MetricName
                => \E j \in DOMAIN queries :
                      /\ queries[j].by = selector.LabelMatchers[i].Name
                      /\ queries[j].sel.name = String(stripLabels(selector)).name)

\* foo{job="a", inst=~"b.*"} with the values of job ignored: step 3 asked for
\* both labels, the per-matcher loop for inst alone
C16_Witness ==
    /\ pc = "done"
    /\ expr = Expr(Leaf(sFooTwo))
    /\ IgnoredBy(comments, sFooTwo, "job")
    /\ Len(queries) = 5
    /\ queries[3].by = "job"
    /\ queries[4].by = "inst"
    /\ queries[5].by = ""
    /\ queries[5].sel.lms = <<Matcher(MatchRegexp, "inst", "b.*")>>

(***************************************************************************)
(* C17                                                                     *)
(***************************************************************************)
\* the time spans a finding made with the wall clock at clock can print: none,
\* or the time since the start of a window or since a series was last seen
SpansAt(clock) ==
    {NoSince}
    \cup {sinceDesc(clock, t) :
            t \in {trs'.from, newest(trs'), trsLabelCount'.from,
                   newest(trsLabel')}}

\* C17: the findings do not depend on the wall clock: a finding made after
\* the clock was seen to advance is, answers and comments being the same,
\* the finding that would have been made had it not advanced.
C17_Idempotence ==
    [][now' /= now
       => \A i \in (Len(problems) + 1)..Len(problems') :
             problems'[i].Text.since \in SpansAt(now)]_vars

(***************************************************************************)
(* C18                                                                     *)
(***************************************************************************)
\* the three min-age directives of a selector, the least specific first
MinAgeScopes(sel) ==
    <<MinAgeKey(TRUE, NoString),
      MinAgeKey(FALSE, String(stripLabels(sel))),
      MinAgeKey(FALSE, String(sel))>>

IsMalformed(c) == c.present /\ ParseDuration(c.Value).err
IsValid(c) == c.present /\ ~ParseDuration(c.Value).err

IsParseWarning(p) ==
    /\ p.Severity = Warning
    /\ p.Text.msg = "failed to parse pint comment as duration"

\* the min-age the valid directives give, the malformed ones counting for
\* nothing
Resolved(cm, sel) ==
    LET s == MinAgeScopes(sel)
    IN  IF IsValid(cm[s[3]]) THEN ParseDuration(cm[s[3]].Value).dur
        ELSE IF IsValid(cm[s[2]]) THEN ParseDuration(cm[s[2]].Value).dur
        ELSE IF IsValid(cm[s[1]]) THEN ParseDuration(cm[s[1]].Value).dur
        ELSE 2 * Hour

\* C18: where step 4 or step 6 calls getMinAge, each of the three min-age
\* directives whose value does not parse adds exactly one Warning, on that
\* comment; the min-age is the one the valid directives give (the most
\* specific of them, or 2 hours); and the disappearance check goes ahead with
\* it: silence if the series ended within that age, the Bug if not.
C18_MalformedMinAge ==
    [][LET new == SubSeq(problems', Len(problems) + 1, Len(problems'))
           warns == SelectSeq(new, IsParseWarning)
           others == SelectSeq(new, LAMBDA p : ~IsParseWarning(p))
           s == MinAgeScopes(selector)
           bad == {i \in 1..3 : IsMalformed(comments'[s[i]])}
           told == /\ Len(warns) = Cardinality(bad)
                   /\ \A i \in DOMAIN warns :
                         \E j \in bad :
                            warns[i].Fragment =
                               CommentFragment(s[j], comments'[s[j]].Value)
                   /\ \A j \in bad :
                         \E i \in DOMAIN warns :
                            warns[i].Fragment =
                               CommentFragment(s[j], comments'[s[j]].Value)
       IN  /\ (pc = "labels" /\ li > Len(labelNames) /\ minAge' /= 0)
              => /\ told
                 /\ minAge' = Resolved(comments', selector)
                 /\ pc' = "next"
                 /\ IF trs.ranges[1].end >= trs.until - minAge'
                    THEN others = <<>>
                    ELSE Len(others) = 1 /\ IsMetricGone(others[1])
           /\ (pc = "matchers" /\ mi <= Len(selector.LabelMatchers)
               /\ AskedOnce /\ ~LastQuery(queries').failed
               /\ Len(trsLabel'.ranges) = 1
               /\ trsLabel'.ranges[1].end < trsLabel'.until - rangeStep)
              => /\ told
                 /\ minAge' = Resolved(comments', selector)
                 /\ pc' = "matchers"
                 /\ mi' = mi + 1
                 /\ IF trsLabel'.ranges[1].end >= trsLabel'.until - minAge'
                    THEN others = <<>>
                    ELSE Len(others) = 1 /\ IsMatcherGone(others[1])]_vars

\* foo{job="a"}: the min-age for the selector does not parse, the one for foo
\* says 3h; one Warning, and foo, gone for days, is reported with 3h in force
C18_Witness ==
    /\ pc = "done"
    /\ expr = Expr(Leaf(sFoo))
    /\ MinAgeKey(FALSE, String(sFoo)) \in DOMAIN comments
    /\ comments[MinAgeKey(FALSE, String(sFoo))] = Present("bogus")
    /\ comments[MinAgeKey(FALSE, String(stripLabels(sFoo)))] = Present("3h")
    /\ comments[MinAgeKey(TRUE, NoString)] = Present("1h")
    /\ minAge = 3 * Hour
    /\ Len(problems) = 2
    /\ IsParseWarning(problems[1])
    /\ IsMetricGone(problems[2])

=============================================================================
